---- MODULE Spec2Model ----
(***************************************************************************)
(* Model of the UOB FAST/GIRO bulk-payment file generator                  *)
(* (src/convert_to_uob.py, src/app.py).                                    *)
(*                                                                         *)
(* A Python str is a sequence of character codes (ord values).  A Python   *)
(* float is an IEEE-754 double, kept as a 53-bit significand (a sequence   *)
(* of bits, most significant first) and the exponent of its leading bit.   *)
(***************************************************************************)
EXTENDS Integers, Sequences, FiniteSets, TLC

VARIABLES
    mode,            \* "app" (process_excel_to_uob), "cli" (convert_excel_to_uob), "call" (a function called directly)
    pc,              \* position in the running entry point
    org,             \* organisation parameters of process_excel_to_uob
    df,              \* the dataframe: rows, each with its index label
    header_record,
    detail_records,
    total_amount,    \* a double
    hc,              \* locals of calculate_hash_total: j, hash_code, total1, total2, payment_code
    hash_total,
    trailer_record,
    output_content,  \* app: the str returned by process_excel_to_uob
    file,            \* cli: the output file on disk
    call,            \* call mode: the function called and its arguments
    result           \* call mode: what the call returned or raised

vars == <<mode, pc, org, df, header_record, detail_records, total_amount, hc,
          hash_total, trailer_record, output_content, file, call, result>>

----------------------------------------------------------------------------
(* Bounds of the model *)

\* dataframes of every row combination up to this length
MaxShort == 2
\* longest dataframe of valid rows
MaxRows == 11

----------------------------------------------------------------------------
(* Characters and strings *)

SP == 32
ZERO == 48
DOT == 46
\* '\r\n'
CRLF == <<13, 10>>
MaxAscii == 127

Min(a, b) == IF a <= b THEN a ELSE b
Max(a, b) == IF a >= b THEN a ELSE b

Spaces(n) == [i \in 1..n |-> SP]
Zeros(n) == [i \in 1..n |-> ZERO]

\* s[a:b] of Python for 0 <= a and 0 <= b (clamped to the string)
Slice(s, a, b) == SubSeq(s, Min(a, Len(s)) + 1, Min(b, Len(s)))

\* s[a:]
SliceFrom(s, a) == SubSeq(s, Min(a, Len(s)) + 1, Len(s))

\* s[-n:]
LastChars(s, n) == SubSeq(s, Max(Len(s) - n, 0) + 1, Len(s))

\* str.ljust(length, ' ')
Ljust(s, length) == s \o Spaces(Max(length - Len(s), 0))

\* str.zfill(length) of a string without sign
Zfill(s, length) == Zeros(Max(length - Len(s), 0)) \o s

\* str(n) for an int n >= 0
RECURSIVE StrNat(_)
StrNat(n) == IF n < 10 THEN <<ZERO + n>> ELSE StrNat(n \div 10) \o <<ZERO + (n % 10)>>

\* s.replace(old, '') for a non-empty old: leftmost non-overlapping occurrences
RECURSIVE RemoveAll(_, _)
RemoveAll(s, old) ==
    LET At(i) == SubSeq(s, i, i + Len(old) - 1) = old
        hits == {i \in 1..(Len(s) - Len(old) + 1) : At(i)}
    IN IF hits = {} THEN s
       ELSE LET first == CHOOSE i \in hits : \A k \in hits : i <= k
            IN SubSeq(s, 1, first - 1) \o RemoveAll(SubSeq(s, first + Len(old), Len(s)), old)

IsAscii(s) == \A i \in 1..Len(s) : s[i] <= MaxAscii

----------------------------------------------------------------------------
(* IEEE-754 doubles: [e |-> exponent of m[1], m |-> 53 bits, m[1] = 1];    *)
(* zero is [e |-> 0, m |-> <<>>].  Only non-negative normal values occur.  *)

MantBits == 53

FZero == [e |-> 0, m |-> <<>>]

ZeroBits(n) == [i \in 1..n |-> 0]

\* a bit string without its leading zeros
StripZeros(b) ==
    IF \A i \in 1..Len(b) : b[i] = 0 THEN <<>>
    ELSE SubSeq(b, CHOOSE i \in 1..Len(b) : b[i] = 1 /\ \A k \in 1..(i - 1) : b[k] = 0, Len(b))

RECURSIVE BinBits(_)
BinBits(n) == IF n = 0 THEN <<>> ELSE BinBits(n \div 2) \o <<n % 2>>

\* the number a bit string denotes, by halves
RECURSIVE BitsToNat(_)
BitsToNat(b) ==
    IF b = <<>> THEN 0
    ELSE IF Len(b) = 1 THEN b[1]
    ELSE LET h == Len(b) \div 2
         IN BitsToNat(SubSeq(b, 1, h)) * 2 ^ (Len(b) - h) + BitsToNat(SubSeq(b, h + 1, Len(b)))

\* the n-bit string of v < 2^n
NatToBits(v, n) == [i \in 1..n |-> (v \div 2 ^ (n - i)) % 2]

\* a + b + cin for two bit strings of equal length n, fifteen bits at a time
\* from the right; the sum has n + 1 bits
RECURSIVE AddCarry(_, _, _)
AddCarry(a, b, cin) ==
    LET n == Len(a) IN
    IF n <= 15 THEN NatToBits(BitsToNat(a) + BitsToNat(b) + cin, n + 1)
    ELSE LET low == NatToBits(BitsToNat(SubSeq(a, n - 14, n))
                              + BitsToNat(SubSeq(b, n - 14, n)) + cin, 16)
         IN AddCarry(SubSeq(a, 1, n - 15), SubSeq(b, 1, n - 15), low[1]) \o Tail(low)

AddBits(a, b) == AddCarry(a, b, 0)

\* round-to-nearest-even of the exact value bits * 2^(lsb) (+ a non-zero tail
\* below the last bit when sticky), bits[1] = 1 or bits empty
RoundDouble(bits, lsb, sticky) ==
    LET n == Len(bits) IN
    IF n = 0 THEN FZero
    ELSE IF n <= MantBits THEN [e |-> lsb + n - 1, m |-> bits \o ZeroBits(MantBits - n)]
    ELSE LET keep == SubSeq(bits, 1, MantBits)
             guard == bits[MantBits + 1]
             rest == sticky \/ \E i \in (MantBits + 2)..n : bits[i] = 1
             up == guard = 1 /\ (rest \/ keep[MantBits] = 1)
             inc == AddBits(keep, ZeroBits(MantBits - 1) \o <<1>>)
             top == lsb + n - 1
         IN IF ~up THEN [e |-> top, m |-> keep]
            ELSE IF inc[1] = 1 THEN [e |-> top + 1, m |-> SubSeq(inc, 1, MantBits)]
            ELSE [e |-> top, m |-> Tail(inc)]

\* number of binary fraction digits generated when reading a decimal
FracBits == MantBits + 11

\* the double nearest to cents / 100: what the spreadsheet reader yields for a
\* cell holding the two-decimal amount
\* 2^k mod 100, by halves
RECURSIVE Pow2Mod100(_)
Pow2Mod100(k) ==
    IF k = 0 THEN 1
    ELSE LET h == Pow2Mod100(k \div 2) IN (h * h * (IF k % 2 = 1 THEN 2 ELSE 1)) % 100

DoubleOfCents(cents) ==
    LET r == [k \in 0..FracBits |-> ((cents % 100) * Pow2Mod100(k)) % 100]
        frac == [k \in 1..FracBits |-> (2 * r[k - 1]) \div 100]
        all == BinBits(cents \div 100) \o frac
    IN RoundDouble(StripZeros(all), 0 - FracBits, r[FracBits] # 0)

\* x * 100 on doubles (100 = 64 + 32 + 4)
FMul100(x) ==
    IF x.m = <<>> THEN FZero
    ELSE LET a == <<0>> \o x.m \o ZeroBits(6)
             b == <<0, 0>> \o x.m \o ZeroBits(5)
             c == <<0, 0, 0, 0, 0, 0>> \o x.m \o ZeroBits(2)
             s == AddBits(Tail(AddBits(a, b)), Tail(c))
         IN RoundDouble(StripZeros(s), x.e - (MantBits - 1), FALSE)

\* x + y on doubles
FAdd(x, y) ==
    IF x.m = <<>> THEN y
    ELSE IF y.m = <<>> THEN x
    ELSE LET lx == x.e - (MantBits - 1)
             ly == y.e - (MantBits - 1)
             l == Min(lx, ly)
             xs == x.m \o ZeroBits(lx - l)
             ys == y.m \o ZeroBits(ly - l)
             n == Max(Len(xs), Len(ys))
             s == AddBits(ZeroBits(n - Len(xs)) \o xs, ZeroBits(n - Len(ys)) \o ys)
         IN RoundDouble(StripZeros(s), l, FALSE)

\* int(x): truncation toward zero
FTrunc(x) ==
    IF x.m = <<>> \/ x.e < 0 THEN 0
    ELSE BitsToNat(SubSeq(x.m, 1, Min(x.e + 1, MantBits)) \o ZeroBits(Max(x.e + 1 - MantBits, 0)))

----------------------------------------------------------------------------
(* String literals of the program *)

\* 'DBSSSGSGXXX'
BIC_DBS == <<68, 66, 83, 83, 83, 71, 83, 71, 88, 88, 88>>
\* 'OCBCSGSGXXX'
BIC_OCBC == <<79, 67, 66, 67, 83, 71, 83, 71, 88, 88, 88>>
\* 'UOVBSGSGXXX'
BIC_UOB == <<85, 79, 86, 66, 83, 71, 83, 71, 88, 88, 88>>
\* 'SCBLSGSGXXX'
BIC_SCB == <<83, 67, 66, 76, 83, 71, 83, 71, 88, 88, 88>>
\* 'HSBCSGSGXXX'
BIC_HSBC == <<72, 83, 66, 67, 83, 71, 83, 71, 88, 88, 88>>
\* 'CITISGSGXXX'
BIC_CITI == <<67, 73, 84, 73, 83, 71, 83, 71, 88, 88, 88>>
\* 'MBBESGSGXXX'
BIC_MAYBANK == <<77, 66, 66, 69, 83, 71, 83, 71, 88, 88, 88>>
\* 'BKCHSGSGXXX'
BIC_BOC == <<66, 75, 67, 72, 83, 71, 83, 71, 88, 88, 88>>
\* 'NORMAL'
STR_NORMAL == <<78, 79, 82, 77, 65, 76>>
\* 'SGD'
STR_SGD == <<83, 71, 68>>
\* 'REF'
STR_REF == <<82, 69, 70>>
\* 'OTHR'
STR_OTHR == <<79, 84, 72, 82>>
\* 'SOFPLS SCHOLARSHIP'
STR_SOFPLS_SCHOLARSHIP == <<83, 79, 70, 80, 76, 83, 32, 83, 67, 72, 79, 76, 65, 82, 83, 72, 73, 80>>
\* 'UGAI'
STR_UGAI == <<85, 71, 65, 73>>
\* '00'
STR_00 == <<48, 48>>
\* '3663050778'
STR_DEFAULT_ACCOUNT == <<51, 54, 54, 51, 48, 53, 48, 55, 55, 56>>
\* 'SINGAPORE OLYMPIC FOUNDATION'
STR_DEFAULT_NAME == <<83, 73, 78, 71, 65, 80, 79, 82, 69, 32, 79, 76, 89, 77, 80, 73, 67, 32, 70, 79, 85, 78, 68, 65, 84, 73, 79, 78>>
\* 'SOFPLSAWARD'
STR_SOFPLSAWARD == <<83, 79, 70, 80, 76, 83, 65, 87, 65, 82, 68>>
\* 'nan': str() of a missing cell
STR_nan == <<110, 97, 110>>
\* single characters
CH_1 == <<49>>
CH_2 == <<50>>
CH_9 == <<57>>
CH_P == <<80>>
CH_R == <<82>>
CH_C == <<67>>
CH_B == <<66>>
CH_I == <<73>>
CH_Y == <<89>>
CH_E == <<69>>

\* BANK_MAPPING
BANK_MAPPING ==
    [b \in {"DBS/POSB - 7171", "OCBC - 7339", "UOB - 7375", "Standard Chartered - 9496",
            "HSBC - 7232", "Citibank - 7214", "Maybank - 7302",
            "Maybank Singapore Limited - 7302", "Bank of China - 7366"} |->
        CASE b = "DBS/POSB - 7171" -> BIC_DBS
          [] b = "OCBC - 7339" -> BIC_OCBC
          [] b = "UOB - 7375" -> BIC_UOB
          [] b = "Standard Chartered - 9496" -> BIC_SCB
          [] b = "HSBC - 7232" -> BIC_HSBC
          [] b = "Citibank - 7214" -> BIC_CITI
          [] b = "Maybank - 7302" -> BIC_MAYBANK
          [] b = "Maybank Singapore Limited - 7302" -> BIC_MAYBANK
          [] b = "Bank of China - 7366" -> BIC_BOC]

----------------------------------------------------------------------------
(* Field codec *)

RecordLen == 1055

\* pad_right(text, length)
pad_right(text, length) == Ljust(Slice(text, 0, length), length)

\* pad_left_zero(number, length): str(int(number)).zfill(length)
pad_left_zero(number, length) == Zfill(StrNat(number), length)

\* format_amount without the conversion to cents
format_amount_unscaled(amount) == pad_left_zero(FTrunc(amount), 18)

\* format_amount(amount) for a double amount
format_amount(amount) == pad_left_zero(FTrunc(FMul100(amount)), 18)

\* specific_date.strftime('%Y%m%d') for a year of four digits
strftime_Ymd(date) ==
    Zfill(StrNat(date.y), 4) \o Zfill(StrNat(date.m), 2) \o Zfill(StrNat(date.d), 2)

\* specific_date.strftime('%d%m')
strftime_dm(date) == Zfill(StrNat(date.d), 2) \o Zfill(StrNat(date.m), 2)

\* f'UGAI{ddmm}00'
FileName(date) == STR_UGAI \o strftime_dm(date) \o STR_00

----------------------------------------------------------------------------
(* Checksum engine *)

\* compute_field_check_summary(field_value, hash_index)
\* the sum of (i + 1) * ord(field_value[i]) over the 0-based indices lo-1..hi-1,
\* added up by halves
RECURSIVE SumWeighted(_, _, _)
SumWeighted(field_value, lo, hi) ==
    IF lo > hi THEN 0
    ELSE IF lo = hi THEN lo * field_value[lo]
    ELSE SumWeighted(field_value, lo, (lo + hi) \div 2)
         + SumWeighted(field_value, ((lo + hi) \div 2) + 1, hi)

compute_field_check_summary(field_value, hash_index) ==
    SumWeighted(field_value, 1, Min(Len(field_value), hash_index))

\* header part of calculate_hash_total: total1
HeaderTotal(header) ==
    compute_field_check_summary(Slice(header, 35, 46), 11)
    + compute_field_check_summary(Slice(header, 49, 83), 34)
    + compute_field_check_summary(Slice(header, 83, 223), 140)

\* payment_code from header_record[11]
PaymentCode(header) ==
    IF <<header[12]>> = CH_P THEN 20
    ELSE IF <<header[12]>> = CH_R THEN 22
    ELSE 30

\* a rotation that starts over after 10 instead of 9
NextHashCodeTen(hash_code) == IF hash_code = 10 THEN 1 ELSE hash_code + 1

\* the update of hash_code at the top of the loop body
NextHashCode(hash_code) == IF hash_code = 9 THEN 1 ELSE hash_code + 1

\* the six slices record[a:b] that the loop of calculate_hash_total reads
HashSlices ==
    [recv_bic |-> <<7, 18>>, recv_acc |-> <<18, 52>>, recv_name |-> <<52, 192>>,
     currency |-> <<186, 189>>, amount |-> <<189, 207>>, purpose |-> <<277, 281>>]

\* record[a:b] for the slice named f
HashField(record, f) == Slice(record, HashSlices[f][1], HashSlices[f][2])

\* sum7 with the End-to-End ID (record[207:242]) added to the fields read
RecordSumWithReference(record, hash_code, payment_code) ==
    compute_field_check_summary(HashField(record, "recv_bic"), 11)
    + compute_field_check_summary(HashField(record, "recv_acc"), 34) * hash_code
    + compute_field_check_summary(HashField(record, "recv_name"), 140) * hash_code
    + compute_field_check_summary(HashField(record, "currency"), 3)
    + compute_field_check_summary(HashField(record, "amount"), 18)
    + compute_field_check_summary(Slice(record, 207, 242), 35)
    + compute_field_check_summary(HashField(record, "purpose"), 4)
    + payment_code * hash_code

\* sum7 of one loop iteration
RecordSum(record, hash_code, payment_code) ==
    compute_field_check_summary(HashField(record, "recv_bic"), 11)
    + compute_field_check_summary(HashField(record, "recv_acc"), 34) * hash_code
    + compute_field_check_summary(HashField(record, "recv_name"), 140) * hash_code
    + compute_field_check_summary(HashField(record, "currency"), 3)
    + compute_field_check_summary(HashField(record, "amount"), 18)
    + compute_field_check_summary(HashField(record, "purpose"), 4)
    + payment_code * hash_code

\* the last 16 digits without the zero fill
HashStringUnpadded(final_check_sum) == LastChars(StrNat(final_check_sum), 16)

\* str(final_check_sum)[-16:].zfill(16)
HashString(final_check_sum) == Zfill(LastChars(StrNat(final_check_sum), 16), 16)

\* hash_code and total2 after the first n iterations of the loop of
\* calculate_hash_total over records
RECURSIVE HashLoop(_, _, _)
HashLoop(records, n, payment_code) ==
    IF n = 0 THEN [hash_code |-> 0, total2 |-> 0]
    ELSE LET before == HashLoop(records, n - 1, payment_code)
             code == NextHashCode(before.hash_code)
         IN [hash_code |-> code,
             total2 |-> before.total2 + RecordSum(records[n], code, payment_code)]

\* calculate_hash_total as a function of its two arguments
calculate_hash_total(header, records) ==
    HashString(HeaderTotal(header)
               + HashLoop(records, Len(records), PaymentCode(header)).total2)

----------------------------------------------------------------------------
(* Record builders *)

\* create_header_record_custom
create_header_record_custom(file_name, creation_date_long, value_date, org_name, org_account, org_bic, customer_ref, processing_mode) ==
    LET record ==
            CH_1
            \o pad_right(Slice(file_name, 0, 10), 10)
            \o CH_P
            \o pad_right(STR_NORMAL, 10)
            \o processing_mode
            \o pad_right(<<>>, 12)
            \o pad_right(org_bic, 11)
            \o STR_SGD
            \o pad_right(org_account, 34)
            \o pad_right(org_name, 140)
            \o creation_date_long
            \o value_date
            \o pad_right(<<>>, 140)
            \o pad_right(customer_ref, 16)
            \o pad_right(<<>>, 10)
            \o pad_right(<<>>, 105)
            \o pad_right(<<>>, 105)
            \o pad_right(<<>>, 440)
    IN Slice(record, 0, RecordLen)

\* create_header_record
create_header_record(file_name, creation_date_long, value_date) ==
    LET record ==
            CH_1
            \o pad_right(Slice(file_name, 0, 10), 10)
            \o CH_P
            \o pad_right(STR_NORMAL, 10)
            \o CH_I
            \o pad_right(<<>>, 12)
            \o pad_right(BIC_UOB, 11)
            \o STR_SGD
            \o pad_right(STR_DEFAULT_ACCOUNT, 34)
            \o pad_right(STR_DEFAULT_NAME, 140)
            \o creation_date_long
            \o value_date
            \o pad_right(<<>>, 140)
            \o pad_right(STR_SOFPLSAWARD, 16)
            \o pad_right(<<>>, 10)
            \o pad_right(<<>>, 105)
            \o pad_right(<<>>, 105)
            \o pad_right(<<>>, 440)
    IN Slice(record, 0, RecordLen)

\* a missing cell (NaN) of a row
IsNaN(row, column) == column \in row.nan

\* a lookup that falls back to the BIC of UOB
BankCodeFallbackUOB(row) ==
    IF ~IsNaN(row, "Bank") /\ row.Bank \in DOMAIN BANK_MAPPING
    THEN BANK_MAPPING[row.Bank] ELSE BIC_UOB

\* BANK_MAPPING.get(row['Bank'], 'DBSSSGSGXXX')
BankCode(row) ==
    IF ~IsNaN(row, "Bank") /\ row.Bank \in DOMAIN BANK_MAPPING
    THEN BANK_MAPPING[row.Bank] ELSE BIC_DBS

\* str(row['Bank Account Number ']).replace('.0', '').replace('.', '')
AccountNum(row) ==
    LET text == IF IsNaN(row, "AccountNumber") THEN STR_nan ELSE row.AccountNumber
    IN RemoveAll(RemoveAll(text, <<DOT, ZERO>>), <<DOT>>)

\* float(row['Amount'])
AmountFloat(row) == DoubleOfCents(row.Amount)

\* create_detail_record raises: a NaN cell is a float, which cannot be sliced
\* (TypeError) nor converted to int (ValueError)
DetailRaises(row) ==
    \/ IsNaN(row, "AccountName")
    \/ IsNaN(row, "Amount")
    \/ IsNaN(row, "Name")
    \/ IsNaN(row, "Email")

\* f'REF{seq_num:04d}'
EndToEndId(seq_num) == STR_REF \o Zfill(StrNat(seq_num), 4)

\* create_detail_record, when it does not raise
create_detail_record(row, seq_num) ==
    LET record ==
            CH_2
            \o pad_right(BankCode(row), 11)
            \o pad_right(AccountNum(row), 34)
            \o pad_right(Slice(row.AccountName, 0, 140), 140)
            \o STR_SGD
            \o format_amount(AmountFloat(row))
            \o pad_right(EndToEndId(seq_num), 35)
            \o pad_right(<<>>, 35)
            \o STR_OTHR
            \o pad_right(STR_SOFPLS_SCHOLARSHIP, 140)
            \o pad_right(<<>>, 140)
            \o pad_right(<<>>, 16)
            \o CH_Y
            \o <<SP>>
            \o CH_E
            \o pad_right(<<>>, 2)
            \o CH_2
            \o pad_right(Slice(row.Name, 0, 35), 35)
            \o pad_right(<<>>, 35)
            \o pad_right(<<>>, 35)
            \o pad_right(<<>>, 35)
            \o pad_right(<<>>, 35)
            \o pad_right(<<>>, 35)
            \o pad_right(<<>>, 35)
            \o pad_right(<<>>, 35)
            \o pad_right(<<>>, 17)
            \o pad_right(<<>>, 3)
            \o pad_right(<<>>, 15)
            \o pad_right(Slice(row.Email, 0, 50), 50)
            \o pad_right(<<>>, 20)
            \o pad_right(<<>>, 35)
            \o pad_right(<<>>, 35)
            \o pad_right(<<>>, 17)
    IN Slice(record, 0, RecordLen)

\* an override written one character further right
OverrideRemittanceShifted(detail_record, payment_desc) ==
    Slice(detail_record, 0, 282) \o pad_right(payment_desc, 140) \o SliceFrom(detail_record, 422)

\* the remittance override of process_excel_to_uob
OverrideRemittance(detail_record, payment_desc) ==
    Slice(detail_record, 0, 281) \o pad_right(payment_desc, 140) \o SliceFrom(detail_record, 421)

\* a trailer whose count includes the header record
create_trailer_record_with_header(amount, total_count, hash) ==
    LET record ==
            CH_9
            \o format_amount(amount)
            \o pad_left_zero(total_count + 1, 7)
            \o hash
            \o pad_right(<<>>, 1013)
    IN Slice(record, 0, RecordLen)

\* create_trailer_record
create_trailer_record(amount, total_count, hash) ==
    LET record ==
            CH_9
            \o format_amount(amount)
            \o pad_left_zero(total_count, 7)
            \o hash
            \o pad_right(<<>>, 1013)
    IN Slice(record, 0, RecordLen)

----------------------------------------------------------------------------
(* Inputs: organisation profiles, spreadsheet rows, dataframes *)

Repeat(ch, n) == [i \in 1..n |-> ch]

\* 'ACME'
STR_ACME == <<65, 67, 77, 69>>
\* '123'
STR_123 == <<49, 50, 51>>
\* 'REF1'
STR_REF1 == <<82, 69, 70, 49>>
\* 'PAY'
STR_PAY == <<80, 65, 89>>
\* 'JOHN TAN'
STR_JOHN_TAN == <<74, 79, 72, 78, 32, 84, 65, 78>>
\* '987654'
STR_987654 == <<57, 56, 55, 54, 53, 52>>
\* 'john@example.com'
STR_JOHN_MAIL == <<106, 111, 104, 110, 64, 101, 120, 97, 109, 112, 108, 101, 46, 99, 111, 109>>
\* 'MARY LIM'
STR_MARY_LIM == <<77, 65, 82, 89, 32, 76, 73, 77>>
\* 'mary@example.com'
STR_MARY_MAIL == <<109, 97, 114, 121, 64, 101, 120, 97, 109, 112, 108, 101, 46, 99, 111, 109>>
\* '12345.0'
STR_12345_0 == <<49, 50, 51, 52, 53, 46, 48>>
\* 'REN\xc9 NG' (E acute, not ASCII)
STR_RENE == <<82, 69, 78, 201, 32, 78, 71>>
\* 'CAF\xc9 PTE LTD' (E acute, not ASCII)
STR_CAFE == <<67, 65, 70, 201, 32, 80, 84, 69, 32, 76, 84, 68>>
\* '5550001'
STR_555 == <<53, 53, 53, 48, 48, 48, 49>>

Today == [y |-> 2025, m |-> 1, d |-> 15]

\* the profile of the end-to-end scenario
OrgAcme ==
    [org_name |-> STR_ACME, org_account |-> STR_123, org_bic |-> BIC_UOB,
     customer_ref |-> STR_REF1, payment_desc |-> STR_PAY, processing_mode |-> CH_B,
     specific_date |-> Today]

\* a profile with a non-ASCII organisation name
OrgCafe ==
    [org_name |-> STR_CAFE, org_account |-> STR_DEFAULT_ACCOUNT, org_bic |-> BIC_UOB,
     customer_ref |-> STR_SOFPLSAWARD, payment_desc |-> STR_SOFPLS_SCHOLARSHIP,
     processing_mode |-> CH_I, specific_date |-> Today]

\* a profile whose fields are longer than their widths; the description has a
\* non-ASCII character beyond its 140th
OrgLong ==
    [org_name |-> Repeat(65, 141), org_account |-> Repeat(55, 35), org_bic |-> Repeat(66, 12),
     customer_ref |-> Repeat(67, 17), payment_desc |-> Repeat(68, 144) \o <<201>>,
     processing_mode |-> CH_I, specific_date |-> Today]

Orgs == {OrgAcme, OrgCafe, OrgLong}

\* the organisation is hard-coded in convert_excel_to_uob; only the date is read
OrgCli == [specific_date |-> Today]

\* the instruction of the end-to-end scenario
RowJohn ==
    [No |-> 1, Name |-> STR_JOHN_TAN, Email |-> STR_JOHN_MAIL, Bank |-> "UOB - 7375",
     AccountName |-> STR_JOHN_TAN, AccountNumber |-> STR_987654, Amount |-> 10000, nan |-> {}]

\* a bank that is no key of BANK_MAPPING, an account read as a float, 0.29
RowMary ==
    [No |-> 2, Name |-> STR_MARY_LIM, Email |-> STR_MARY_MAIL, Bank |-> "POSB Savings",
     AccountName |-> STR_MARY_LIM, AccountNumber |-> STR_12345_0, Amount |-> 29, nan |-> {}]

\* a total row: nothing but an amount
RowTotal ==
    [No |-> 0, Name |-> <<>>, Email |-> <<>>, Bank |-> "", AccountName |-> <<>>,
     AccountNumber |-> <<>>, Amount |-> 10029,
     nan |-> {"No", "Name", "Email", "Bank", "AccountName", "AccountNumber"}]

\* non-ASCII names
RowRene ==
    [No |-> 3, Name |-> STR_RENE, Email |-> STR_MARY_MAIL, Bank |-> "DBS/POSB - 7171",
     AccountName |-> STR_RENE, AccountNumber |-> STR_555, Amount |-> 255, nan |-> {}]

\* no e-mail address
RowNoMail ==
    [No |-> 4, Name |-> STR_MARY_LIM, Email |-> <<>>, Bank |-> "OCBC - 7339",
     AccountName |-> STR_MARY_LIM, AccountNumber |-> STR_555, Amount |-> 57, nan |-> {"Email"}]

\* every field empty, and every field longer than its width
RowEmpty ==
    [No |-> 5, Name |-> <<>>, Email |-> <<>>, Bank |-> "", AccountName |-> <<>>,
     AccountNumber |-> <<>>, Amount |-> 0, nan |-> {}]

RowLong ==
    [No |-> 6, Name |-> Repeat(78, 36), Email |-> Repeat(101, 51), Bank |-> "HSBC - 7232",
     AccountName |-> Repeat(65, 141), AccountNumber |-> Repeat(57, 35), Amount |-> 99999999,
     nan |-> {}]

\* an empty Bank cell
RowNoBank ==
    [No |-> 7, Name |-> STR_JOHN_TAN, Email |-> STR_JOHN_MAIL, Bank |-> "",
     AccountName |-> STR_JOHN_TAN, AccountNumber |-> STR_987654, Amount |-> 10000,
     nan |-> {"Bank"}]

RowPool == <<RowJohn, RowMary, RowTotal, RowRene, RowNoMail>>

ValidPool == <<RowJohn, RowMary>>

\* pd.read_excel: the rows under a RangeIndex 0..n-1
ReadExcel(rows) == [k \in 1..Len(rows) |-> [idx |-> k - 1, row |-> rows[k]]]

ShortFrames ==
    UNION {[1..n -> {RowPool[p] : p \in 1..Len(RowPool)}] : n \in 0..MaxShort}

LongFrames ==
    {[k \in 1..n |-> ValidPool[((k - 1) % Len(ValidPool)) + 1]] : n \in (MaxShort + 1)..MaxRows}

Frames == {ReadExcel(rows) : rows \in ShortFrames \cup LongFrames}

\* df.dropna(subset=...): the rows keep their index labels
Dropna(frame, subset) ==
    LET Keep(r) == r.row.nan \cap subset = {} IN SelectSeq(frame, Keep)

\* ''.join(lines)
RECURSIVE Join(_)
Join(lines) == IF lines = <<>> THEN <<>> ELSE Head(lines) \o Join(Tail(lines))

----------------------------------------------------------------------------
(* State machine *)

NoCall == [fn |-> "none"]
NoResult == [kind |-> "none"]
NoFile == [exists |-> FALSE, n |-> 0, data |-> <<>>]
NoHash == [j |-> 0, hash_code |-> 0, total1 |-> 0, total2 |-> 0, payment_code |-> 0]

Idle ==
    /\ pc = "start"
    /\ header_record = <<>>
    /\ detail_records = <<>>
    /\ total_amount = FZero
    /\ hc = NoHash
    /\ hash_total = <<>>
    /\ trailer_record = <<>>
    /\ output_content = <<>>
    /\ file = NoFile
    /\ call = NoCall
    /\ result = NoResult

Init ==
    /\ Idle
    /\ \/ mode = "app" /\ org \in Orgs /\ df \in Frames
       \/ mode = "cli" /\ org = OrgCli /\ df \in Frames
       \/ mode = "call" /\ org = OrgCli /\ df = <<>>

\* process_excel_to_uob up to the header record
AppBegin ==
    /\ mode = "app" /\ pc = "start"
    /\ df' = Dropna(Dropna(df, {"Name", "AccountNumber", "Amount"}), {"No"})
    /\ header_record' =
           create_header_record_custom(FileName(org.specific_date),
               strftime_Ymd(org.specific_date), strftime_Ymd(org.specific_date),
               org.org_name, org.org_account, org.org_bic, org.customer_ref,
               org.processing_mode)
    /\ detail_records' = <<>>
    /\ total_amount' = FZero
    /\ pc' = "details"
    /\ UNCHANGED <<mode, org, hc, hash_total, trailer_record, output_content, file, call, result>>

\* one iteration of the loop over df.iterrows() in process_excel_to_uob; an
\* exception ends the function
AppDetail ==
    /\ mode = "app" /\ pc = "details"
    /\ Len(detail_records) < Len(df)
    /\ LET item == df[Len(detail_records) + 1]
           seq_num == item.idx + 1
       IN IF DetailRaises(item.row)
          THEN /\ pc' = "error"
               /\ UNCHANGED <<detail_records, total_amount>>
          ELSE /\ detail_records' =
                     Append(detail_records,
                            OverrideRemittance(create_detail_record(item.row, seq_num),
                                               org.payment_desc))
               /\ total_amount' = FAdd(total_amount, AmountFloat(item.row))
               /\ pc' = "details"
    /\ UNCHANGED <<mode, org, df, header_record, hc, hash_total, trailer_record,
                   output_content, file, call, result>>

\* convert_excel_to_uob up to the header record
CliBegin ==
    /\ mode = "cli" /\ pc = "start"
    /\ df' = Dropna(df, {"Name", "AccountNumber", "Amount"})
    /\ header_record' =
           create_header_record(FileName(org.specific_date),
               strftime_Ymd(org.specific_date), strftime_Ymd(org.specific_date))
    /\ detail_records' = <<>>
    /\ total_amount' = FZero
    /\ pc' = "details"
    /\ UNCHANGED <<mode, org, hc, hash_total, trailer_record, output_content, file, call, result>>

\* one iteration of the loop over df.iterrows() in convert_excel_to_uob
CliDetail ==
    /\ mode = "cli" /\ pc = "details"
    /\ Len(detail_records) < Len(df)
    /\ LET item == df[Len(detail_records) + 1]
           seq_num == item.idx + 1
       IN IF DetailRaises(item.row)
          THEN /\ pc' = "error"
               /\ UNCHANGED <<detail_records, total_amount>>
          ELSE /\ detail_records' =
                     Append(detail_records, create_detail_record(item.row, seq_num))
               /\ total_amount' = FAdd(total_amount, AmountFloat(item.row))
               /\ pc' = "details"
    /\ UNCHANGED <<mode, org, df, header_record, hc, hash_total, trailer_record,
                   output_content, file, call, result>>

\* calculate_hash_total before its loop
HashInit ==
    /\ \/ pc = "details" /\ Len(detail_records) = Len(df)
       \/ pc = "call_hash"
    /\ hc' = [j |-> 0, hash_code |-> 0, total1 |-> HeaderTotal(header_record),
              total2 |-> 0, payment_code |-> PaymentCode(header_record)]
    /\ pc' = "hash"
    /\ UNCHANGED <<mode, org, df, header_record, detail_records, total_amount, hash_total,
                   trailer_record, output_content, file, call, result>>

\* one iteration of the loop of calculate_hash_total
HashStep ==
    /\ pc = "hash"
    /\ hc.j < Len(detail_records)
    /\ LET code == NextHashCode(hc.hash_code) IN
       hc' = [hc EXCEPT !.j = @ + 1,
                        !.hash_code = code,
                        !.total2 = @ + RecordSum(detail_records[hc.j + 1], code,
                                                 hc.payment_code)]
    /\ UNCHANGED <<mode, pc, org, df, header_record, detail_records, total_amount,
                   hash_total, trailer_record, output_content, file, call, result>>

\* calculate_hash_total returns
HashFinish ==
    /\ pc = "hash"
    /\ hc.j = Len(detail_records)
    /\ hash_total' = HashString(hc.total1 + hc.total2)
    /\ pc' = IF mode = "call" THEN "called" ELSE "trailer"
    /\ result' = IF mode = "call"
                 THEN [kind |-> "returned", v |-> HashString(hc.total1 + hc.total2)]
                 ELSE result
    /\ UNCHANGED <<mode, org, df, header_record, detail_records, total_amount, hc,
                   trailer_record, output_content, file, call>>

\* the trailer record of either entry point
Trailer ==
    /\ pc = "trailer"
    /\ trailer_record' = create_trailer_record(total_amount, Len(detail_records), hash_total)
    /\ pc' = "output"
    /\ UNCHANGED <<mode, org, df, header_record, detail_records, total_amount, hc,
                   hash_total, output_content, file, call, result>>

\* lines ended by LF alone
OutputLinesLF ==
    <<header_record \o <<10>>>>
    \o [k \in 1..Len(detail_records) |-> detail_records[k] \o <<10>>]
    \o <<trailer_record \o <<10>>>>

\* the lines of the output, each ended by CR LF
OutputLines ==
    <<header_record \o CRLF>>
    \o [k \in 1..Len(detail_records) |-> detail_records[k] \o CRLF]
    \o <<trailer_record \o CRLF>>

\* process_excel_to_uob returns output_content, total_amount, the count and hash_total
AppReturn ==
    /\ mode = "app" /\ pc = "output"
    /\ output_content' = Join(OutputLines)
    /\ pc' = "returned"
    /\ UNCHANGED <<mode, org, df, header_record, detail_records, total_amount, hc,
                   hash_total, trailer_record, file, call, result>>

\* the page shows the metrics, then st.download_button(data=output_content.encode('ascii'))
Download ==
    /\ mode = "app" /\ pc = "returned"
    /\ IF IsAscii(output_content)
       THEN /\ file' = [exists |-> TRUE, n |-> Len(detail_records) + 2, data |-> output_content]
            /\ pc' = "done"
       ELSE /\ pc' = "error"
            /\ UNCHANGED file
    /\ UNCHANGED <<mode, org, df, header_record, detail_records, total_amount, hc,
                   hash_total, trailer_record, output_content, call, result>>

\* open(output_file, 'wb')
CliOpen ==
    /\ mode = "cli" /\ pc = "output"
    /\ file' = [exists |-> TRUE, n |-> 0, data |-> <<>>]
    /\ pc' = "write"
    /\ UNCHANGED <<mode, org, df, header_record, detail_records, total_amount, hc,
                   hash_total, trailer_record, output_content, call, result>>

\* one f.write((record + '\r\n').encode('ascii')); a UnicodeEncodeError leaves
\* the with block, which closes the file, and main() exits with status 1
CliWrite ==
    /\ mode = "cli" /\ pc = "write"
    /\ LET line == OutputLines[file.n + 1] IN
       IF IsAscii(line)
       THEN /\ file' = [file EXCEPT !.n = @ + 1, !.data = @ \o line]
            /\ pc' = IF file.n + 1 = Len(OutputLines) THEN "done" ELSE "write"
       ELSE /\ pc' = "error"
            /\ UNCHANGED file
    /\ UNCHANGED <<mode, org, df, header_record, detail_records, total_amount, hc,
                   hash_total, trailer_record, output_content, call, result>>

----------------------------------------------------------------------------
(* The functions called directly, over empty, ordinary and over-long arguments *)

Returned(v) == [kind |-> "returned", v |-> v]
Raised == [kind |-> "raised"]

CallNumbers == {0, 7, 9999999, 10000000, 12345678}
CallWidths == {1, 7, 18}

CallPadLeftZero ==
    /\ mode = "call" /\ pc = "start"
    /\ \E number \in CallNumbers, length \in CallWidths :
          /\ call' = [fn |-> "pad_left_zero", number |-> number, length |-> length]
          /\ result' = Returned(pad_left_zero(number, length))
    /\ pc' = "called"
    /\ UNCHANGED <<mode, org, df, header_record, detail_records, total_amount, hc,
                   hash_total, trailer_record, output_content, file>>

CallHeader ==
    /\ mode = "call" /\ pc = "start"
    /\ \E file_name \in {<<>>, FileName(Today)},
          creation_date_long \in {<<>>, strftime_Ymd(Today)},
          org_name \in {<<>>, STR_ACME, Repeat(65, 141)},
          org_account \in {<<>>, Repeat(55, 35)},
          org_bic \in {<<>>, BIC_UOB},
          customer_ref \in {<<>>, Repeat(67, 17)},
          processing_mode \in {<<>>, CH_B, CH_I} :
          /\ call' = [fn |-> "create_header_record_custom", file_name |-> file_name,
                      creation_date_long |-> creation_date_long,
                      value_date |-> creation_date_long, org_name |-> org_name,
                      org_account |-> org_account, org_bic |-> org_bic,
                      customer_ref |-> customer_ref, processing_mode |-> processing_mode]
          /\ result' = Returned(create_header_record_custom(file_name, creation_date_long,
                           creation_date_long, org_name, org_account, org_bic,
                           customer_ref, processing_mode))
    /\ pc' = "called"
    /\ UNCHANGED <<mode, org, df, header_record, detail_records, total_amount, hc,
                   hash_total, trailer_record, output_content, file>>

CallDetail ==
    /\ mode = "call" /\ pc = "start"
    /\ \E row \in {RowJohn, RowMary, RowTotal, RowRene, RowNoMail, RowEmpty, RowLong, RowNoBank},
          seq_num \in {1, 9999, 10000} :
          /\ call' = [fn |-> "create_detail_record", row |-> row, seq_num |-> seq_num]
          /\ result' = IF DetailRaises(row) THEN Raised
                       ELSE Returned(create_detail_record(row, seq_num))
    /\ pc' = "called"
    /\ UNCHANGED <<mode, org, df, header_record, detail_records, total_amount, hc,
                   hash_total, trailer_record, output_content, file>>

CallTrailer ==
    /\ mode = "call" /\ pc = "start"
    /\ \E cents \in {0, 29, 10000, 99999999},
          total_count \in {0, 1, 9999999, 12345678},
          hash \in {<<>>, HashString(0), HashString(12345678)} :
          /\ call' = [fn |-> "create_trailer_record", cents |-> cents,
                      total_count |-> total_count, hash_total |-> hash]
          /\ result' = Returned(create_trailer_record(DoubleOfCents(cents), total_count, hash))
    /\ pc' = "called"
    /\ UNCHANGED <<mode, org, df, header_record, detail_records, total_amount, hc,
                   hash_total, trailer_record, output_content, file>>

\* a header record whose payment type (position 12) is t
HeaderOfType(t) ==
    LET h == create_header_record_custom(FileName(Today), strftime_Ymd(Today),
                 strftime_Ymd(Today), STR_ACME, STR_123, BIC_UOB, STR_REF1, CH_B)
    IN Slice(h, 0, 11) \o t \o SliceFrom(h, 12)

CallDetailLists ==
    {[k \in 1..n |-> create_detail_record(ValidPool[((k - 1) % Len(ValidPool)) + 1], k)] :
        n \in 0..MaxRows}

\* calculate_hash_total(header_record, detail_records) called directly
CallHashTotal ==
    /\ mode = "call" /\ pc = "start"
    /\ \E t \in {CH_P, CH_R, CH_C}, records \in CallDetailLists :
          /\ header_record' = HeaderOfType(t)
          /\ detail_records' = records
    /\ call' = [fn |-> "calculate_hash_total"]
    /\ pc' = "call_hash"
    /\ UNCHANGED <<mode, org, df, total_amount, hc, hash_total, trailer_record,
                   output_content, file, result>>

Next ==
    \/ AppBegin
    \/ AppDetail
    \/ CliBegin
    \/ CliDetail
    \/ HashInit
    \/ HashStep
    \/ HashFinish
    \/ Trailer
    \/ AppReturn
    \/ Download
    \/ CliOpen
    \/ CliWrite
    \/ CallPadLeftZero
    \/ CallHeader
    \/ CallDetail
    \/ CallTrailer
    \/ CallHashTotal

Spec == Init /\ [][Next]_vars

----------------------------------------------------------------------------
(* Properties *)

IsDigits(s) == \A i \in 1..Len(s) : s[i] \in ZERO..(ZERO + 9)

\* the number a string of decimal digits denotes, by halves
RECURSIVE DigitsToNat(_)
DigitsToNat(s) ==
    IF s = <<>> THEN 0
    ELSE IF Len(s) = 1 THEN s[1] - ZERO
    ELSE LET h == Len(s) \div 2
         IN DigitsToNat(SubSeq(s, 1, h)) * 10 ^ (Len(s) - h) + DigitsToNat(SubSeq(s, h + 1, Len(s)))

Batch == mode \in {"app", "cli"}

CalledBuilder ==
    /\ pc = "called"
    /\ call.fn \in {"create_header_record_custom", "create_detail_record", "create_trailer_record"}

\* C1: whatever the arguments, empty and over-long ones included, the header,
\* detail and trailer builders each return a string of exactly 1055 characters.
C1_BuildersReturn1055 ==
    CalledBuilder => result.kind = "returned" /\ Len(result.v) = RecordLen

\* C2: pad_left_zero raises when the number needs more digits than the width,
\* so a trailer whose count needs more than 7 digits is not returned.
C2_OverflowRaises ==
    /\ (pc = "called" /\ call.fn = "pad_left_zero" /\ Len(StrNat(call.number)) > call.length)
          => result.kind = "raised"
    /\ (pc = "called" /\ call.fn = "create_trailer_record" /\ Len(StrNat(call.total_count)) > 7)
          => result.kind = "raised"

\* C3: the End-to-End ID of the k-th detail record of a batch is "REF" and k
\* in four digits, k being the position of the row among the cleaned rows.
C3_EndToEndIdIsPosition ==
    Batch =>
        \A k \in 1..Len(detail_records) :
            Slice(detail_records[k], 207, 242) = pad_right(STR_REF \o Zfill(StrNat(k), 4), 35)

\* C4: when a run of the converter ends in an error, no output file holding
\* only part of the batch exists.
C4_NoPartialFile ==
    (mode = "cli" /\ pc = "error" /\ file.exists) => file.data = Join(OutputLines)

\* some field of the organisation profile or of a payment row of the batch
\* holds a non-ASCII character
NonAsciiInput ==
    \/ \E f \in {"org_name", "org_account", "org_bic", "customer_ref", "payment_desc"} :
          ~IsAscii(org[f])
    \/ \E k \in 1..Len(df) :
          \E f \in {"Name", "Email", "AccountName", "AccountNumber"} : ~IsAscii(df[k].row[f])

\* C5: with a non-ASCII character in a field of the profile or of a payment
\* row, the encoder raises instead of returning the buffer, the hash total and
\* the statistics.
C5_NonAsciiNeverReturns ==
    (mode = "app" /\ NonAsciiInput) => pc \notin {"returned", "done"}

\* the multiplier of the k-th detail record
RotatingCode(k) == ((k - 1) % 9) + 1

\* total2 over the first n detail records, by the formula of the claim
RECURSIVE ClaimTotal2(_, _)
ClaimTotal2(n, payment_code) ==
    IF n = 0 THEN 0
    ELSE LET record == detail_records[n]
             code == RotatingCode(n)
         IN ClaimTotal2(n - 1, payment_code)
            + compute_field_check_summary(SubSeq(record, 8, 18), 11)
            + compute_field_check_summary(SubSeq(record, 19, 52), 34) * code
            + compute_field_check_summary(SubSeq(record, 53, 192), 140) * code
            + compute_field_check_summary(SubSeq(record, 187, 189), 3)
            + compute_field_check_summary(SubSeq(record, 190, 207), 18)
            + compute_field_check_summary(SubSeq(record, 278, 281), 4)
            + payment_code * code

ClaimTotal1 ==
    compute_field_check_summary(SubSeq(header_record, 36, 46), 11)
    + compute_field_check_summary(SubSeq(header_record, 50, 83), 34)
    + compute_field_check_summary(SubSeq(header_record, 84, 223), 140)

ClaimPaymentCode ==
    CASE header_record[12] = 80 -> 20
      [] header_record[12] = 82 -> 22
      [] OTHER -> 30

HashComputed == pc \in {"trailer", "output", "returned", "write", "done"} \/ (pc = "called" /\ call.fn = "calculate_hash_total")

\* C6: calculate_hash_total returns exactly 16 decimal digits whose value is
\* total1 + total2 (reduced modulo 10^16, which leaves every sum of these
\* batches as it is), total1 the weighted sums of the three header slices and
\* total2 the sum over the detail records of the weighted field sums with the
\* rotating multiplier and the payment code 20, 22 or 30.
C6_HashTotalFormula ==
    HashComputed =>
        /\ Len(hash_total) = 16
        /\ IsDigits(hash_total)
        /\ DigitsToNat(hash_total)
              = ClaimTotal1 + ClaimTotal2(Len(detail_records), ClaimPaymentCode)

C6_Witness ==
    /\ pc = "called" /\ call.fn = "calculate_hash_total"
    /\ <<header_record[12]>> = CH_R
    /\ Len(detail_records) >= 11
    /\ result.kind = "returned"

\* C7: the multiplier used for the k-th record of the loop of
\* calculate_hash_total is ((k-1) mod 9) + 1: never 0, never 10, and 2 for the
\* eleventh record.
C7_HashCodeRotation ==
    (pc \in {"hash", "trailer", "called"} /\ hc.j >= 1) =>
        /\ hc.hash_code = RotatingCode(hc.j)
        /\ hc.hash_code \in 1..9

C7_Witness == pc = "hash" /\ hc.j = 11 /\ hc.hash_code = 2

\* the l-th line of a buffer of lines of 1057 characters
BufferLine(buffer, l) == SubSeq(buffer, (l - 1) * (RecordLen + 2) + 1, l * (RecordLen + 2))

\* the buffer is the header, the detail records in the order of the rows and
\* the trailer, each followed by CR LF
WellFormedBuffer(buffer) ==
    LET n == Len(detail_records) IN
    /\ Len(buffer) = (n + 2) * (RecordLen + 2)
    /\ BufferLine(buffer, 1) = header_record \o CRLF
    /\ \A k \in 1..n :
          /\ BufferLine(buffer, k + 1) = detail_records[k] \o CRLF
          /\ SubSeq(detail_records[k], 584, 618) = pad_right(df[k].row.Name, 35)
    /\ BufferLine(buffer, n + 2) = trailer_record \o CRLF
    /\ Len(df) = n
    /\ \A l \in 1..(n + 2) : Len(BufferLine(buffer, l)) - 2 = RecordLen
    /\ <<header_record[1]>> = CH_1 /\ <<trailer_record[1]>> = CH_9
    /\ \A k \in 1..n : <<detail_records[k][1]>> = CH_2

\* C8: the output of a batch of N cleaned instructions is the header, the N
\* detail records in the order of the rows, and the trailer last, each
\* followed by CR LF: N + 2 lines of 1057 characters.
C8_OutputLayout ==
    /\ (mode = "app" /\ pc \in {"returned", "done"}) => WellFormedBuffer(output_content)
    /\ (mode = "app" /\ pc = "done") => file.data = output_content
    /\ (mode = "cli" /\ pc = "done") => WellFormedBuffer(file.data)

C8_Witness ==
    /\ mode = "app" /\ pc = "returned"
    /\ Len(detail_records) >= 2
    /\ df[1].row # df[2].row

\* the cents of the amount fields of the detail records, added up
RECURSIVE DetailCents(_)
DetailCents(n) ==
    IF n = 0 THEN 0
    ELSE DetailCents(n - 1) + DigitsToNat(SubSeq(detail_records[n], 190, 207))

\* C9: the total-amount field of the trailer (positions 2-19) is the sum of
\* the amount fields (190-207) of the detail records, and its count field
\* (20-26) is the number of detail records.
C9_TrailerTotals ==
    (Batch /\ pc \in {"output", "returned", "write", "done"}) =>
        /\ DigitsToNat(SubSeq(trailer_record, 2, 19)) = DetailCents(Len(detail_records))
        /\ DigitsToNat(SubSeq(trailer_record, 20, 26)) = Len(detail_records)

\* the end-to-end scenario: the profile ACME and the one instruction of 100.00
EndToEndScenario ==
    /\ mode = "app" /\ pc \in {"returned", "done"}
    /\ org = OrgAcme
    /\ df = ReadExcel(<<RowJohn>>)

\* '000000000010000000'
STR_TEN_MILLION == <<48, 48, 48, 48, 48, 48, 48, 48, 48, 48, 49, 48, 48, 48, 48, 48, 48, 48>>
\* '000000000000010000'
STR_TEN_THOUSAND == <<48, 48, 48, 48, 48, 48, 48, 48, 48, 48, 48, 48, 48, 49, 48, 48, 48, 48>>
\* '0000001'
STR_COUNT_ONE == <<48, 48, 48, 48, 48, 48, 49>>

ThreeLines ==
    /\ Len(output_content) = 3 * (RecordLen + 2)
    /\ \A l \in 1..3 : SubSeq(BufferLine(output_content, l), RecordLen + 1, RecordLen + 2) = CRLF

\* C10 as stated: in the end-to-end scenario the output has 3 lines of 1057
\* bytes, the amount field of the trailer is "000000000010000000" and its
\* count field is "0000001".
C10_Original ==
    EndToEndScenario =>
        /\ ThreeLines
        /\ SubSeq(BufferLine(output_content, 3), 2, 19) = STR_TEN_MILLION
        /\ SubSeq(BufferLine(output_content, 3), 20, 26) = STR_COUNT_ONE

\* C10 amended: in the end-to-end scenario the output has 3 lines of 1057
\* bytes, the amount field of the trailer is "000000000000010000" (10000
\* cents) and its count field is "0000001".
C10_EndToEnd ==
    EndToEndScenario =>
        /\ ThreeLines
        /\ SubSeq(BufferLine(output_content, 3), 2, 19) = STR_TEN_THOUSAND
        /\ SubSeq(BufferLine(output_content, 3), 20, 26) = STR_COUNT_ONE

C10_Witness == EndToEndScenario /\ pc = "done"

\* a batch whose cleaned frame has no row
ZeroBatch == Batch /\ pc # "start" /\ Len(df) = 0

\* '000000000000000000'
STR_AMOUNT_ZERO == <<48, 48, 48, 48, 48, 48, 48, 48, 48, 48, 48, 48, 48, 48, 48, 48, 48, 48>>
\* '0000000'
STR_COUNT_ZERO == <<48, 48, 48, 48, 48, 48, 48>>

\* the buffer is the header line and a trailer line of count 0, amount 0 and
\* the hash total of the header fields alone
HeaderThenTrailer(buffer) ==
    /\ Len(buffer) = 2 * (RecordLen + 2)
    /\ BufferLine(buffer, 1) = header_record \o CRLF
    /\ <<buffer[1]>> = CH_1
    /\ LET trailer == BufferLine(buffer, 2) IN
       /\ <<trailer[1]>> = CH_9
       /\ SubSeq(trailer, 2, 19) = STR_AMOUNT_ZERO
       /\ SubSeq(trailer, 20, 26) = STR_COUNT_ZERO
       /\ IsDigits(SubSeq(trailer, 27, 42))
       /\ DigitsToNat(SubSeq(trailer, 27, 42)) = ClaimTotal1
       /\ SubSeq(trailer, RecordLen + 1, RecordLen + 2) = CRLF

\* C11: a batch with zero valid detail rows is encoded without error into
\* exactly two lines, header then trailer; the count field of the trailer is
\* "0000000", its amount field is "000000000000000000" and its hash total is
\* the 16-digit value computed from the header fields alone.
C11_ZeroBatch ==
    ZeroBatch =>
        /\ detail_records = <<>>
        /\ pc = "error" => (mode = "app" /\ output_content # <<>>)
        /\ (mode = "app" /\ output_content # <<>>) => HeaderThenTrailer(output_content)
        /\ (mode = "app" /\ pc = "done") => file.data = output_content
        /\ (mode = "cli" /\ pc = "done") => HeaderThenTrailer(file.data)

C11_Witness == ZeroBatch /\ mode = "app" /\ pc = "done" /\ file.n = 2

\* the record with its End-to-End ID field (positions 208-242) written for
\* another sequence number
WithEndToEndId(record, seq_num) ==
    SubSeq(record, 1, 207) \o pad_right(EndToEndId(seq_num), 35) \o SubSeq(record, 243, Len(record))

\* the sequence number passed to the builder for the k-th detail record
SeqNumOf(k) == IF Batch THEN df[k].idx + 1 ELSE k

\* the detail records of the same batch built with every sequence number
\* shifted by d
Renumbered(d) ==
    [k \in 1..Len(detail_records) |-> WithEndToEndId(detail_records[k], SeqNumOf(k) + d)]

SeqShifts == {1, 10, 9000}

OtherSeqNums == {2, 1234, 10000}

HashReturned == pc = "trailer" \/ (pc = "called" /\ call.fn = "calculate_hash_total")

\* C12: two batches that are identical except for the sequence numbers passed
\* to the detail builder differ only in the End-to-End ID field of their detail
\* records, and calculate_hash_total returns the same hash total for both: no
\* byte of the End-to-End ID field is read by the checksum.
C12_HashIgnoresSequence ==
    /\ (pc = "called" /\ call.fn = "create_detail_record" /\ result.kind = "returned") =>
          \A s \in OtherSeqNums :
              LET other == create_detail_record(call.row, s) IN
              /\ other = WithEndToEndId(result.v, s)
              /\ s # call.seq_num => other # result.v
    /\ HashReturned =>
          \A d \in SeqShifts :
              calculate_hash_total(header_record, Renumbered(d)) = hash_total

C12_Witness ==
    /\ mode = "app" /\ pc = "trailer"
    /\ Len(detail_records) >= 2
    /\ \A k \in 1..Len(detail_records) : Renumbered(1)[k] # detail_records[k]

\* 'DBSSSGSGXXX'
STR_DEFAULT_BIC == <<68, 66, 83, 83, 83, 71, 83, 71, 88, 88, 88>>

\* the bank name of the row is a key of the lookup table
BankIsKey(row) == "Bank" \notin row.nan /\ row.Bank \in DOMAIN BANK_MAPPING

ExpectedBic(row) == IF BankIsKey(row) THEN BANK_MAPPING[row.Bank] ELSE STR_DEFAULT_BIC

\* the characters of a detail record outside the receiving BIC field
OutsideBic(record) == SubSeq(record, 1, 1) \o SubSeq(record, 13, Len(record))

\* C13: when the bank name of a row is not a key of the bank lookup table,
\* building its detail record does not fail: positions 2-12 hold the default
\* BIC and everything else is encoded as it would be otherwise; when the name
\* is a key, positions 2-12 hold the mapped 11-character BIC.
C13_BankFallback ==
    /\ \A b \in DOMAIN BANK_MAPPING : Len(BANK_MAPPING[b]) = 11
    /\ (pc = "called" /\ call.fn = "create_detail_record" /\ call.row.nan \subseteq {"Bank"}) =>
          /\ result.kind = "returned"
          /\ SubSeq(result.v, 2, 12) = ExpectedBic(call.row)
          /\ OutsideBic(result.v)
                = OutsideBic(create_detail_record([call.row EXCEPT !.Bank = "UOB - 7375", !.nan = {}],
                                                  call.seq_num))
    /\ (Batch /\ pc = "details" /\ detail_records # <<>>) =>
          LET k == Len(detail_records) IN
          SubSeq(detail_records[k], 2, 12) = ExpectedBic(df[k].row)
    /\ (Batch /\ pc = "error" /\ Len(detail_records) < Len(df)) =>
          df[Len(detail_records) + 1].row.nan \ {"Bank"} # {}

C13_Witness ==
    /\ Batch /\ pc = "done"
    /\ Len(detail_records) = Len(df)
    /\ \E k \in 1..Len(df) :
          /\ ~BankIsKey(df[k].row)
          /\ k < Len(df)
          /\ BankIsKey(df[k + 1].row)

\* the description truncated to 140 characters and right-padded with spaces
RemittanceField(payment_desc) ==
    [i \in 1..140 |-> IF i <= Len(payment_desc) THEN payment_desc[i] ELSE SP]

\* C14: the remittance override of process_excel_to_uob yields a record of
\* exactly 1055 characters whose positions 282-421 are the payment description
\* truncated to 140 characters and right-padded with spaces, and whose
\* positions 1-281 and 422-1055 are those of the record returned by
\* create_detail_record.
C14_RemittanceOverride ==
    (mode = "app" /\ pc = "details" /\ detail_records # <<>>) =>
        LET k == Len(detail_records)
            record == detail_records[k]
            built == create_detail_record(df[k].row, df[k].idx + 1)
        IN /\ Len(record) = 1055
           /\ SubSeq(record, 282, 421) = RemittanceField(org.payment_desc)
           /\ SubSeq(record, 1, 281) = SubSeq(built, 1, 281)
           /\ SubSeq(record, 422, 1055) = SubSeq(built, 422, 1055)
           /\ Len(built) = 1055

C14_Witness ==
    /\ mode = "app" /\ pc = "details"
    /\ Len(detail_records) = 2
    /\ Len(org.payment_desc) > 140
    /\ detail_records[2] # create_detail_record(df[2].row, df[2].idx + 1)

\* the half-open ranges of two slices have no position in common
Disjoint(a, b) == a[2] <= b[1] \/ b[2] <= a[1]

\* C15: the slices that calculate_hash_total reads as receiving BIC, receiving
\* account and receiving name are the 11-, 34- and 140-character fields in
\* which create_detail_record wrote the BIC, the account number and the
\* account name, and no character of the record is read by more than one of
\* the six checksum slices.
C15_SlicesAreFields ==
    (pc = "called" /\ call.fn = "create_detail_record" /\ result.kind = "returned") =>
        /\ HashField(result.v, "recv_bic") = pad_right(BankCode(call.row), 11)
        /\ HashField(result.v, "recv_acc") = pad_right(AccountNum(call.row), 34)
        /\ HashField(result.v, "recv_name") = pad_right(Slice(call.row.AccountName, 0, 140), 140)
        /\ \A f, g \in DOMAIN HashSlices :
              f # g => Disjoint(HashSlices[f], HashSlices[g])

====
